---- MODULE Spec2Model ----
(***************************************************************************)
(* Model of generate_payments_map.py: the record loader, the colorizers,   *)
(* the popup and marker builders and the artifact emitter's marker loop.   *)
(*                                                                         *)
(* Strings.  A Python str is modelled as a sequence of tokens whose        *)
(* concatenation is the str.  A token is one whitespace character " ",     *)
(* one comma ",", or a word: a non-empty run of characters that neither    *)
(* starts nor ends with whitespace and holds no comma ("Central bank" is   *)
(* one word).  So "  UK " is <<" ", " ", "UK", " ">>, "RTGS, DNS" is       *)
(* <<"RTGS", ",", " ", "DNS">> and "" is << >>.  str.strip() and           *)
(* str.split(',') are computed on the tokens.  Colors and the fixed pieces *)
(* of the generated HTML are never inspected by the program and are kept   *)
(* as atoms.                                                               *)
(***************************************************************************)
EXTENDS Integers, Sequences, FiniteSets, TLC

VARIABLES
    pc,                           \* position of the run (see Init / InitCalls)
    filter_realtime_implemented,  \* load_payment_data's flag
    fieldnames,                   \* reader.fieldnames: the columns of the header
    nread,                        \* rows consumed from the csv reader so far
    row,                          \* load_payment_data's loop variable
    payment_keys,                 \* insertion order of payment_by_country's keys
    payment_by_country,           \* country -> list of system_info
    layers_data,                  \* generate_html_map: layer type -> markers
    layer_keys,                   \* insertion order of layers_data's keys
    fn,                           \* SpecCalls: the function called directly
    arg,                          \* SpecCalls: its argument
    ret,                          \* SpecCalls: the call's return value or exception;
                                  \* Spec: the exception that ended the run
    currentLayer,                 \* client script: var currentLayer
    active_buttons,               \* layer buttons whose classList has 'active'
    currentMarkers,               \* circles of the layer group currentMarkers
    legendDiv,                    \* innerHTML of the legend's div
    handlers_attached,            \* the setTimeout callback of line 488 has run
    js_error,                     \* the uncaught exception of the last script run
    nclicks                       \* clicks on layer buttons so far

vars == <<pc, filter_realtime_implemented, fieldnames, nread, row, payment_keys,
          payment_by_country, layers_data, layer_keys, fn, arg, ret,
          currentLayer, active_buttons, currentMarkers, legendDiv,
          handlers_attached, js_error, nclicks>>

\* the state of the generated page in a browser
page_vars == <<currentLayer, active_buttons, currentMarkers, legendDiv,
               handlers_attached, js_error, nclicks>>

(***************************************************************************)
(* Bounds of the model.                                                    *)
(***************************************************************************)
\* rows of the input file
MaxRows == 2
\* whitespace characters on either side of an input string
MaxPad == 2
\* records of one country handed to build_popup_html
MaxSystems == 7
\* records of one country handed to generate_layer_markers
MaxGroup == 2
\* countries of the document opened in the browser
MaxCountries == 2
\* clicks on the layer buttons
MaxClicks == 3

(***************************************************************************)
(* Python built-ins on token strings.                                      *)
(***************************************************************************)
WS == " "
COMMA == ","
EmptyStr == << >>

\* the str that is the single word w
S(w) == <<w>>

\* Python's None.  It is not a str: NONE_TOKEN is a token of no str, and a
\* str method called on None raises AttributeError.
NONE_TOKEN == "<None>"
None == <<NONE_TOKEN>>

\* bool(v) of a str or None
truthy(v) == v # EmptyStr /\ v # None

\* f"{v}" of a str or None
format(v) == IF v = None THEN S("None") ELSE v

RECURSIVE lstrip(_)
lstrip(s) == IF s # << >> /\ Head(s) = WS THEN lstrip(Tail(s)) ELSE s

RECURSIVE rstrip(_)
rstrip(s) ==
    IF s # << >> /\ s[Len(s)] = WS THEN rstrip(SubSeq(s, 1, Len(s) - 1)) ELSE s

\* str.strip()
strip(s) == rstrip(lstrip(s))

\* str.split(',')[0]: everything before the first comma
RECURSIVE split_comma_0(_)
split_comma_0(s) ==
    IF s = << >> \/ Head(s) = COMMA THEN << >>
    ELSE <<Head(s)>> \o split_comma_0(Tail(s))

\* dict.get(key, default)
DictGet(d, key, default) == IF key \in DOMAIN d THEN d[key] ELSE default

\* str(n) for a small non-negative integer
Str(n) == ToString(n)

(***************************************************************************)
(* normalize_country_name                                                  *)
(***************************************************************************)
COUNTRY_MAPPINGS ==
    (S("United States") :> S("United States of America")) @@
    (S("USA") :> S("United States of America")) @@
    (S("UK") :> S("United Kingdom")) @@
    (S("UAE") :> S("United Arab Emirates")) @@
    (S("South Korea") :> S("Republic of Korea")) @@
    (S("Korea") :> S("Republic of Korea")) @@
    (S("Russia") :> S("Russian Federation"))

\* line 25: name.strip() raises AttributeError when name is None
normalize_country_name_raises(name) == name = None

normalize_country_name_nostrip(name) == DictGet(COUNTRY_MAPPINGS, name, name)

normalize_country_name(name) ==
    LET stripped == strip(name)
    IN  DictGet(COUNTRY_MAPPINGS, stripped, stripped)

(***************************************************************************)
(* The six colorizers.                                                     *)
(***************************************************************************)
FallbackColor == "#757575"

payment_type_colors ==
    (S("Interbank payment system") :> "#2E7D32") @@
    (S("Cross-domain payment system") :> "#1976D2") @@
    (S("Mobile money") :> "#F57C00") @@
    (S("CBDC") :> "#7B1FA2") @@
    (S("Mobile wallet") :> "#C2185B") @@
    (<<"Interbank payment system", COMMA, WS, "Mobile wallet">> :> "#00796B") @@
    (S("NA") :> "#9E9E9E")

operator_colors ==
    (S("Central bank") :> "#1565C0") @@
    (S("Bank association") :> "#00897B") @@
    (S("Commercial bank/Private PSP") :> "#6A1B9A") @@
    (S("Private PSP") :> "#AD1457") @@
    (S("Central bank/Bank association") :> "#0277BD") @@
    (S("Other") :> "#F57C00") @@
    (S("NA") :> "#9E9E9E")

status_colors ==
    (S("Implemented") :> "#2E7D32") @@
    (S("Planned/Piloted") :> "#F9A825") @@
    (S("NA") :> "#9E9E9E")

yes_no_colors ==
    (S("Yes") :> "#2E7D32") @@
    (S("No") :> "#D32F2F") @@
    (S("NA") :> "#9E9E9E")

settlement_colors ==
    (S("RTGS") :> "#1565C0") @@
    (S("DNS") :> "#00897B") @@
    (S("ACH") :> "#6A1B9A") @@
    (S("MN") :> "#F57C00") @@
    (S("Distributed settlement") :> "#00796B") @@
    (S("NA") :> "#9E9E9E")

national_regional_colors ==
    (S("National") :> "#1976D2") @@
    (S("Regional") :> "#388E3C")

get_color_for_payment_type(payment_type) ==
    DictGet(payment_type_colors, payment_type, FallbackColor)

\* line 91: operator.strip() raises AttributeError when operator is None
get_color_for_operator_raises(operator) == operator = None

get_color_for_operator_nostrip(operator) ==
    DictGet(operator_colors, operator, FallbackColor)

get_color_for_operator(operator) ==
    DictGet(operator_colors, strip(operator), FallbackColor)

get_color_for_status(status) == DictGet(status_colors, status, FallbackColor)

\* line 109 with the gray of 'NA' as the default
get_color_for_yes_no_gray_default(value) == DictGet(yes_no_colors, value, "#9E9E9E")

get_color_for_yes_no(value) == DictGet(yes_no_colors, value, FallbackColor)

\* settlement.split(',')[0].strip() if settlement else 'NA'
settlement_first(settlement) ==
    IF truthy(settlement) THEN strip(split_comma_0(settlement)) ELSE S("NA")

get_color_for_settlement_nostrip(settlement) ==
    DictGet(settlement_colors,
            IF truthy(settlement) THEN split_comma_0(settlement) ELSE S("NA"),
            FallbackColor)

get_color_for_settlement(settlement) ==
    DictGet(settlement_colors, settlement_first(settlement), FallbackColor)

get_color_for_national_regional(nr) ==
    DictGet(national_regional_colors, nr, FallbackColor)

(***************************************************************************)
(* load_payment_data: one row of the csv.DictReader is a dict from the     *)
(* header's column names to strs; a column that the header lacks is no key *)
(* of the row.                                                             *)
(***************************************************************************)
COL_COUNTRY == "Country / Region"
COL_NAME == "Payment system name"
COL_TYPE == "Payment system type"
COL_OPERATOR == "Operator"
COL_BANK == "Bank participation"
COL_NONBANK == "Non-bank participation"
COL_STATUS == "Status of payment system implementation"
COL_SCOPE == "National / Regional"
COL_SETTLEMENT == "Type of settlement system"
COL_QR == "QR code based transactions"
COL_CROSS == "Cross-border payments"
COL_TRANSACTIONS == "Types of transactions supported"
COL_ACTIVE == "Active real-time payment system present"
COL_URL == "URL"

\* row.get(column, default): the default for an absent key only; a key that
\* csv.DictReader filled with None yields None
Get(r, column, default) == IF column \in DOMAIN r THEN r[column] ELSE default

\* the labels of line 36's list
REGIONAL_ENTRIES == {S("Africa"), S("Asia"), S("Europe")}

\* line 36: not country or country in ['Africa', 'Asia', 'Europe']
skip_country_keep_regions(country) == country = EmptyStr

skip_country(country) == country = EmptyStr \/ country \in REGIONAL_ENTRIES

\* lines 41-43: the filter's condition for skipping a row
filtered_out_and(r) ==
    /\ Get(r, COL_ACTIVE, S("No")) # S("Yes")
    /\ Get(r, COL_STATUS, S("NA")) # S("Implemented")

filtered_out(r) ==
    \/ Get(r, COL_ACTIVE, S("No")) # S("Yes")
    \/ Get(r, COL_STATUS, S("NA")) # S("Implemented")

\* lines 47-61
system_info(r) ==
    [name |-> Get(r, COL_NAME, S("Unknown")),
     payment_type |-> Get(r, COL_TYPE, S("NA")),
     operator |-> Get(r, COL_OPERATOR, S("NA")),
     bank_participation |-> Get(r, COL_BANK, S("NA")),
     nonbank_participation |-> Get(r, COL_NONBANK, S("NA")),
     status |-> Get(r, COL_STATUS, S("NA")),
     national_regional |-> Get(r, COL_SCOPE, S("National")),
     settlement_type |-> Get(r, COL_SETTLEMENT, S("NA")),
     qr_code |-> Get(r, COL_QR, S("NA")),
     cross_border |-> Get(r, COL_CROSS, S("NA")),
     transactions_supported |-> Get(r, COL_TRANSACTIONS, S("NA")),
     active |-> Get(r, COL_ACTIVE, S("No")),
     url |-> Get(r, COL_URL, EmptyStr)]

\* the column that each field of system_info is read from
ColumnOf ==
    [name |-> COL_NAME, payment_type |-> COL_TYPE, operator |-> COL_OPERATOR,
     bank_participation |-> COL_BANK, nonbank_participation |-> COL_NONBANK,
     status |-> COL_STATUS, national_regional |-> COL_SCOPE,
     settlement_type |-> COL_SETTLEMENT, qr_code |-> COL_QR,
     cross_border |-> COL_CROSS, transactions_supported |-> COL_TRANSACTIONS,
     active |-> COL_ACTIVE, url |-> COL_URL]

\* line 35, for a row whose country is a str
row_country(r) == normalize_country_name(Get(r, COL_COUNTRY, EmptyStr))

\* lines 36-44: whether the loop body reaches line 63 for this row
row_retained(r, filter) ==
    /\ ~skip_country(row_country(r))
    /\ ~(filter /\ filtered_out(r))

\* line 63 where the first row of a country creates the key and appends nothing
dict_append_key_only(data, country, info) ==
    IF country \in DOMAIN data
    THEN [data EXCEPT ![country] = Append(@, info)]
    ELSE data @@ (country :> << >>)

\* line 63 on the defaultdict: payment_by_country[country].append(system_info)
dict_append(data, country, info) ==
    IF country \in DOMAIN data
    THEN [data EXCEPT ![country] = Append(@, info)]
    ELSE data @@ (country :> <<info>>)

keys_append(keys, data, country) ==
    IF country \in DOMAIN data THEN keys ELSE Append(keys, country)

(***************************************************************************)
(* build_popup_html.  The returned str is the concatenation of the tokens. *)
(***************************************************************************)
\* systems[:5]
PopupLimit == 5

Min(a, b) == IF a < b THEN a ELSE b

\* lines 139-145, for enumerate's index i (from 0); "(U+2713)" stands for the
\* check mark character of line 144
popup_entry(i, sys) ==
    <<"<b>", Str(i + 1), ". ">> \o format(sys.name) \o <<"</b><br/>">>
    \o <<"Type: ">> \o format(sys.payment_type) \o <<"<br/>">>
    \o <<"Operator: ">> \o format(sys.operator) \o <<"<br/>">>
    \o <<"Status: ">> \o format(sys.status) \o <<"<br/>">>
    \o (IF sys.active = S("Yes")
        THEN <<"(U+2713) Active real-time system<br/>">> ELSE << >>)
    \o <<"<br/>">>

\* lines 138-145: the entries of shown[i+1 ..], i counting from 0
RECURSIVE popup_entries(_, _)
popup_entries(shown, i) ==
    IF i >= Len(shown) THEN << >>
    ELSE popup_entry(i, shown[i + 1]) \o popup_entries(shown, i + 1)

build_popup_html_no_limit(country, systems) ==
    <<"<b>">> \o country \o <<"</b><br/><br/>">>
    \o <<"<b>Payment Systems: ", Str(Len(systems)), "</b><br/><br/>">>
    \o popup_entries(systems, 0)
    \o (IF Len(systems) > PopupLimit
        THEN <<"<i>...and ", Str(Len(systems) - PopupLimit), " more systems</i><br/>">>
        ELSE << >>)

build_popup_html(country, systems) ==
    <<"<b>">> \o country \o <<"</b><br/><br/>">>
    \o <<"<b>Payment Systems: ", Str(Len(systems)), "</b><br/><br/>">>
    \o popup_entries(SubSeq(systems, 1, Min(PopupLimit, Len(systems))), 0)
    \o (IF Len(systems) > PopupLimit
        THEN <<"<i>...and ", Str(Len(systems) - PopupLimit), " more systems</i><br/>">>
        ELSE << >>)

(***************************************************************************)
(* generate_layer_markers.  A call either returns a value or raises.       *)
(***************************************************************************)
Ok(v) == [exc |-> "none", val |-> v]
Raise(e) == [exc |-> e, val |-> << >>]

IsActive(s) == s.active = S("Yes")
IsImplemented(s) == s.status = S("Implemented")

\* lines 159-168 with the two priorities exchanged
primary_system_implemented_first(systems) ==
    LET active_systems == SelectSeq(systems, IsActive)
        implemented_systems == SelectSeq(systems, IsImplemented)
    IN  IF implemented_systems # << >> THEN Ok(implemented_systems[1])
        ELSE IF active_systems # << >> THEN Ok(active_systems[1])
        ELSE IF systems # << >> THEN Ok(systems[1])
        ELSE Raise("IndexError")

\* lines 159-168; systems[0] of an empty list raises IndexError
primary_system(systems) ==
    LET active_systems == SelectSeq(systems, IsActive)
        implemented_systems == SelectSeq(systems, IsImplemented)
    IN  IF active_systems # << >> THEN Ok(active_systems[1])
        ELSE IF implemented_systems # << >> THEN Ok(implemented_systems[1])
        ELSE IF systems # << >> THEN Ok(systems[1])
        ELSE Raise("IndexError")

\* generate_html_map's layer_types, in order
layer_types ==
    <<"payment_type", "operator", "status", "bank_participation",
      "nonbank_participation", "settlement_type", "national_regional", "qr_code">>

\* lines 174-175: the colorizer of the operator layer raises AttributeError
\* when the representative's operator is None; no other branch calls a
\* method of the field (line 188 tests the settlement's truth first)
layer_color_raises(layer_type, p) ==
    layer_type = "operator" /\ get_color_for_operator_raises(p.operator)

\* lines 171-197: <<color, value>> of the marker
layer_color_value(layer_type, p) ==
    IF layer_type = "payment_type"
    THEN <<get_color_for_payment_type(p.payment_type), p.payment_type>>
    ELSE IF layer_type = "operator"
    THEN <<get_color_for_operator(p.operator), p.operator>>
    ELSE IF layer_type = "bank_participation"
    THEN <<get_color_for_yes_no(p.bank_participation), p.bank_participation>>
    ELSE IF layer_type = "nonbank_participation"
    THEN <<get_color_for_yes_no(p.nonbank_participation), p.nonbank_participation>>
    ELSE IF layer_type = "status"
    THEN <<get_color_for_status(p.status), p.status>>
    ELSE IF layer_type = "settlement_type"
    THEN <<get_color_for_settlement(p.settlement_type),
           settlement_first(p.settlement_type)>>
    ELSE IF layer_type = "national_regional"
    THEN <<get_color_for_national_regional(p.national_regional), p.national_regional>>
    ELSE IF layer_type = "qr_code"
    THEN <<get_color_for_yes_no(p.qr_code), p.qr_code>>
    ELSE <<FallbackColor, S("Unknown")>>

\* lines 199-207
make_marker(country, systems, layer_type, p) ==
    [country |-> country,
     color |-> layer_color_value(layer_type, p)[1],
     value |-> layer_color_value(layer_type, p)[2],
     popup |-> build_popup_html(country, systems),
     system_count |-> Len(systems)]

\* lines 156-207: the loop over payment_data.items(), from the i-th key on
RECURSIVE markers_loop(_, _, _, _, _)
markers_loop(keys, data, layer_type, i, markers) ==
    IF i > Len(keys) THEN Ok(markers)
    ELSE LET country == keys[i]
             systems == data[country]
             primary == primary_system(systems)
         IN  IF primary.exc # "none" THEN Raise(primary.exc)
             ELSE IF layer_color_raises(layer_type, primary.val)
             THEN Raise("AttributeError")
             ELSE markers_loop(keys, data, layer_type, i + 1,
                    Append(markers,
                           make_marker(country, systems, layer_type, primary.val)))

\* the loop of lines 156-207 started at the second item
generate_layer_markers_from_second(keys, data, layer_type) ==
    markers_loop(keys, data, layer_type, 2, << >>)

\* payment_data is the dict with keys `keys` (in insertion order) and values `data`
generate_layer_markers(keys, data, layer_type) ==
    markers_loop(keys, data, layer_type, 1, << >>)

(***************************************************************************)
(* Inputs.                                                                 *)
(***************************************************************************)
\* n whitespace characters
RECURSIVE Spaces(_)
Spaces(n) == IF n = 0 THEN << >> ELSE <<WS>> \o Spaces(n - 1)

\* core with up to MaxPad whitespace characters on either side
Padded(core) == {Spaces(l) \o core \o Spaces(r) : l \in 0..MaxPad, r \in 0..MaxPad}

\* the values of a line that has one for every column of the header
FullRow(country, active, status) ==
    (COL_COUNTRY :> country) @@
    (COL_NAME :> S("FastPay")) @@
    (COL_TYPE :> S("Mobile money")) @@
    (COL_OPERATOR :> <<"Central bank", WS>>) @@
    (COL_BANK :> S("Yes")) @@
    (COL_NONBANK :> S("No")) @@
    (COL_STATUS :> status) @@
    (COL_SCOPE :> S("Regional")) @@
    (COL_SETTLEMENT :> <<"RTGS", COMMA, WS, "DNS">>) @@
    (COL_QR :> S("Unclear")) @@
    (COL_CROSS :> S("No")) @@
    (COL_TRANSACTIONS :> S("P2P")) @@
    (COL_ACTIVE :> active) @@
    (COL_URL :> S("https://example.org/fastpay"))

AllColumns == DOMAIN FullRow(EmptyStr, EmptyStr, EmptyStr)

\* a header with the 14 columns that load_payment_data reads
FullHeader ==
    <<COL_COUNTRY, COL_NAME, COL_TYPE, COL_OPERATOR, COL_BANK, COL_NONBANK,
      COL_STATUS, COL_SCOPE, COL_SETTLEMENT, COL_QR, COL_CROSS,
      COL_TRANSACTIONS, COL_ACTIVE, COL_URL>>

\* a header whose first column is not the country
NameFirstHeader == <<COL_NAME, COL_COUNTRY, COL_ACTIVE, COL_STATUS>>

CountryOnlyHeader == <<COL_COUNTRY>>

\* FullHeader of a file that lacks one column
HeaderWithout(column) == SelectSeq(FullHeader, LAMBDA c : c # column)

Headers ==
    {FullHeader, NameFirstHeader, CountryOnlyHeader}
    \cup {HeaderWithout(column) : column \in AllColumns}

\* csv.DictReader's row for a line with n values, the first n of `values` in
\* the header's order: every column of the header is a key, and a column
\* for which the line has no value is None (restval)
DictRow(header, values, n) ==
    [c \in {header[i] : i \in 1..Len(header)} |->
        IF \E i \in 1..n : header[i] = c THEN values[c] ELSE None]

Kenya == S("Kenya")

CountryInputs ==
    {Kenya, <<WS, "USA", WS>>, S("Africa"), <<WS, "Asia">>, <<"Europe", WS>>,
     EmptyStr, <<WS, WS>>}

ActiveInputs == {S("Yes"), S("No"), <<"Yes", WS>>}
StatusInputs == {S("Implemented"), S("Planned/Piloted"), S("implemented")}

\* lines that differ in the country
RowsCountry ==
    {FullRow(c, S("Yes"), S("Implemented")) : c \in CountryInputs}

\* lines that differ in the two fields the filter and the marker builder read
RowsFlags ==
    {FullRow(Kenya, a, s) : a \in ActiveInputs, s \in StatusInputs}
    \cup {FullRow(<<WS, "USA", WS>>, S("No"), S("Planned/Piloted")),
          FullRow(S("Africa"), S("No"), S("Planned/Piloted"))}

\* lines read under every header
RowsBase ==
    {FullRow(Kenya, S("Yes"), S("Implemented")),
     FullRow(<<WS, "USA", WS>>, S("No"), S("Planned/Piloted")),
     FullRow(S("Africa"), S("No"), S("Planned/Piloted"))}

\* the headers under which lines shorter than the header are read
ShortHeaders == {FullHeader, NameFirstHeader}

\* the rows that the reader of a file with this header can give: lines as
\* long as the header, and lines with fewer values (a blank line gives none)
RowsOf(header) ==
    {DictRow(header, values, Len(header)) :
        values \in RowsBase
            \cup (IF header = FullHeader THEN RowsCountry \cup RowsFlags ELSE {})}
    \cup (IF header \in ShortHeaders
          THEN {DictRow(header, FullRow(Kenya, S("Yes"), S("Implemented")), n) :
                    n \in 1..(Len(header) - 1)}
          ELSE {})

NoRow == << >>

(***************************************************************************)
(* Spec: the program run, load_payment_data then generate_html_map.        *)
(*   pc = "load"     in the loop of load_payment_data (lines 34-63)        *)
(*   pc = "markers"  in the loop of generate_html_map (lines 279-280)      *)
(*   pc = "done"     the document is written                               *)
(*   pc = "error"    the exception ret ended the run                       *)
(***************************************************************************)
\* no page is open
NoPage ==
    /\ currentLayer = "none"
    /\ active_buttons = {}
    /\ currentMarkers = << >>
    /\ legendDiv = << >>
    /\ handlers_attached = FALSE
    /\ js_error = "none"
    /\ nclicks = 0

Init ==
    /\ pc = "load"
    /\ filter_realtime_implemented \in BOOLEAN
    /\ fieldnames \in Headers
    /\ nread = 0
    /\ row = NoRow
    /\ payment_keys = << >>
    /\ payment_by_country = << >>
    /\ layers_data = << >>
    /\ layer_keys = << >>
    /\ fn = "main"
    /\ arg = << >>
    /\ ret = << >>
    /\ NoPage

\* one iteration of the loop of lines 34-63; the exception of line 35 leaves
\* load_payment_data and ends the run
ReadRow ==
    /\ pc = "load"
    /\ nread < MaxRows
    /\ \E r \in RowsOf(fieldnames) :
        /\ row' = r
        /\ IF normalize_country_name_raises(Get(r, COL_COUNTRY, EmptyStr))
           THEN /\ pc' = "error"
                /\ ret' = "AttributeError"
                /\ UNCHANGED <<payment_by_country, payment_keys>>
           ELSE /\ UNCHANGED <<pc, ret>>
                /\ IF row_retained(r, filter_realtime_implemented)
                   THEN /\ payment_by_country' =
                             dict_append(payment_by_country, row_country(r),
                                         system_info(r))
                        /\ payment_keys' =
                             keys_append(payment_keys, payment_by_country,
                                         row_country(r))
                   ELSE UNCHANGED <<payment_by_country, payment_keys>>
    /\ nread' = nread + 1
    /\ UNCHANGED <<filter_realtime_implemented, fieldnames, layers_data,
                   layer_keys, fn, arg, page_vars>>

\* the reader is exhausted: line 65 returns, generate_html_map starts (line 278)
FinishLoad ==
    /\ pc = "load"
    /\ pc' = "markers"
    /\ row' = NoRow
    /\ layers_data' = << >>
    /\ layer_keys' = << >>
    /\ UNCHANGED <<filter_realtime_implemented, fieldnames, nread, payment_keys,
                   payment_by_country, fn, arg, ret, page_vars>>

\* one iteration of the loop of lines 279-280; an exception of
\* generate_layer_markers ends the run
GenerateLayer ==
    /\ pc = "markers"
    /\ Len(layer_keys) < Len(layer_types)
    /\ LET layer_type == layer_types[Len(layer_keys) + 1]
           markers == generate_layer_markers(payment_keys, payment_by_country,
                                             layer_type)
       IN  IF markers.exc # "none"
           THEN /\ pc' = "error"
                /\ ret' = markers.exc
                /\ UNCHANGED <<layers_data, layer_keys>>
           ELSE /\ layers_data' = layers_data @@ (layer_type :> markers.val)
                /\ layer_keys' = Append(layer_keys, layer_type)
                /\ UNCHANGED <<pc, ret>>
    /\ UNCHANGED <<filter_realtime_implemented, fieldnames, nread, row,
                   payment_keys, payment_by_country, fn, arg, page_vars>>

\* lines 283-744: the document is assembled and written
WriteHtml ==
    /\ pc = "markers"
    /\ Len(layer_keys) = Len(layer_types)
    /\ pc' = "done"
    /\ UNCHANGED <<filter_realtime_implemented, fieldnames, nread, row, payment_keys,
                   payment_by_country, layers_data, layer_keys, fn, arg, ret, page_vars>>

Next == ReadRow \/ FinishLoad \/ GenerateLayer \/ WriteHtml

Spec == Init /\ [][Next]_vars

(***************************************************************************)
(* SpecCalls: one direct call of one function on an argument drawn from a  *)
(* bounded set.                                                            *)
(*   pc = "call"    the call is about to be made                           *)
(*   pc = "return"  it returned ret                                        *)
(*   pc = "raise"   it raised the exception ret                            *)
(***************************************************************************)
\* every list of at most n elements of set
SeqsUpTo(set, n) == UNION {[1..k -> set] : k \in 0..n}

CountryCores ==
    DOMAIN COUNTRY_MAPPINGS
    \cup {COUNTRY_MAPPINGS[k] : k \in DOMAIN COUNTRY_MAPPINGS}
    \cup {Kenya, S("Africa"), S("usa"), EmptyStr, <<"Korea", COMMA, WS, "South">>}

\* strs, and the None of a line without a value for the country
NormalizeInputs == UNION {Padded(core) : core \in CountryCores} \cup {None}

ColorCores ==
    DOMAIN payment_type_colors \cup DOMAIN operator_colors
    \cup DOMAIN status_colors \cup DOMAIN yes_no_colors
    \cup DOMAIN settlement_colors \cup DOMAIN national_regional_colors
    \cup {S("Bogus"), S("yes"), EmptyStr,
          <<"RTGS", COMMA, WS, "DNS">>, <<"DNS", WS, COMMA, "Bogus">>,
          <<"Bogus", COMMA, "RTGS">>, <<COMMA, "RTGS">>}

\* strs, and the None of a line without a value for the field
ColorInputs == UNION {Padded(core) : core \in ColorCores} \cup {None}

Colorizers ==
    {"get_color_for_payment_type", "get_color_for_operator",
     "get_color_for_status", "get_color_for_yes_no",
     "get_color_for_settlement", "get_color_for_national_regional"}

\* the system_info that load_payment_data builds from FullRow with the
\* columns of over replaced
Info(over) == system_info(over @@ FullRow(Kenya, S("No"), S("Planned/Piloted")))

Alpha ==
    Info((COL_NAME :> S("Alpha")) @@ (COL_ACTIVE :> S("No"))
         @@ (COL_STATUS :> S("Planned/Piloted"))
         @@ (COL_TYPE :> S("Interbank payment system"))
         @@ (COL_OPERATOR :> S("Central bank")) @@ (COL_BANK :> S("Yes"))
         @@ (COL_NONBANK :> S("Yes")) @@ (COL_SETTLEMENT :> S("RTGS"))
         @@ (COL_SCOPE :> S("National")) @@ (COL_QR :> S("Yes")))

Beta ==
    Info((COL_NAME :> S("Beta")) @@ (COL_ACTIVE :> S("Yes"))
         @@ (COL_STATUS :> S("NA")) @@ (COL_TYPE :> S("Mobile money"))
         @@ (COL_OPERATOR :> <<WS, "Private PSP">>) @@ (COL_BANK :> S("No"))
         @@ (COL_NONBANK :> S("NA")) @@ (COL_SETTLEMENT :> S("Bogus"))
         @@ (COL_SCOPE :> S("Regional")) @@ (COL_QR :> S("No")))

Gamma ==
    Info((COL_NAME :> S("Gamma")) @@ (COL_ACTIVE :> S("No"))
         @@ (COL_STATUS :> S("Implemented")) @@ (COL_TYPE :> S("CBDC"))
         @@ (COL_OPERATOR :> S("Bogus")) @@ (COL_BANK :> S("NA"))
         @@ (COL_NONBANK :> S("No"))
         @@ (COL_SETTLEMENT :> <<WS, "DNS", COMMA, WS, "ACH">>)
         @@ (COL_SCOPE :> S("Bogus")) @@ (COL_QR :> S("NA")))

Delta ==
    Info((COL_NAME :> S("Delta")) @@ (COL_ACTIVE :> S("Yes"))
         @@ (COL_STATUS :> S("Implemented"))
         @@ (COL_TYPE :> <<"Interbank payment system", COMMA, WS, "Mobile wallet">>)
         @@ (COL_OPERATOR :> S("Other")) @@ (COL_BANK :> S("Unclear"))
         @@ (COL_NONBANK :> S("Unclear")) @@ (COL_SETTLEMENT :> EmptyStr)
         @@ (COL_SCOPE :> <<"National", WS>>) @@ (COL_QR :> S("Unclear")))

Epsilon ==
    Info((COL_NAME :> S("Epsilon")) @@ (COL_ACTIVE :> S("No"))
         @@ (COL_STATUS :> S("Implemented")) @@ (COL_TYPE :> S("Bogus"))
         @@ (COL_OPERATOR :> EmptyStr) @@ (COL_BANK :> <<"Yes", WS>>)
         @@ (COL_NONBANK :> <<WS, "No">>) @@ (COL_SETTLEMENT :> S("MN"))
         @@ (COL_SCOPE :> EmptyStr) @@ (COL_QR :> EmptyStr))

\* the system_info of the line "Kenya,Zeta" under FullHeader: every field
\* after the name is None
Zeta ==
    system_info(DictRow(FullHeader,
                        (COL_NAME :> S("Zeta"))
                            @@ FullRow(Kenya, S("Yes"), S("Implemented")),
                        2))

PopupRecords == {Alpha, Beta, Gamma}

PopupInputs ==
    {[country |-> Kenya, systems |-> systems] :
        systems \in SeqsUpTo(PopupRecords, MaxSystems)}

MarkerRecords == {Alpha, Beta, Gamma, Delta, Epsilon, Zeta}

SecondRecords == {Alpha, Delta}

India == S("India")

\* dicts of at most two countries; a country's list may be empty
PaymentDataInputs ==
    {[keys |-> << >>, data |-> << >>]}
    \cup {[keys |-> <<Kenya>>, data |-> (Kenya :> g)] :
            g \in SeqsUpTo(MarkerRecords, MaxGroup)}
    \cup {[keys |-> ks, data |-> (Kenya :> g) @@ (India :> h)] :
            ks \in {<<Kenya, India>>, <<India, Kenya>>},
            g \in SeqsUpTo(MarkerRecords, MaxGroup),
            h \in SeqsUpTo(SecondRecords, MaxGroup)}

LayerTypeInputs == {layer_types[i] : i \in 1..Len(layer_types)} \cup {"bogus"}

MarkerInputs ==
    {[keys |-> d.keys, data |-> d.data, layer_type |-> lt] :
        d \in PaymentDataInputs, lt \in LayerTypeInputs}

InitCalls ==
    /\ pc = "call"
    /\ filter_realtime_implemented = FALSE
    /\ fieldnames = << >>
    /\ nread = 0
    /\ row = NoRow
    /\ payment_keys = << >>
    /\ payment_by_country = << >>
    /\ layers_data = << >>
    /\ layer_keys = << >>
    /\ ret = << >>
    /\ NoPage
    /\ \/ fn = "normalize_country_name" /\ arg \in NormalizeInputs
       \/ fn \in Colorizers /\ arg \in ColorInputs
       \/ fn = "build_popup_html" /\ arg \in PopupInputs
       \/ fn = "generate_layer_markers" /\ arg \in MarkerInputs

Returns(value) ==
    /\ pc' = "return"
    /\ ret' = value
    /\ UNCHANGED <<filter_realtime_implemented, fieldnames, nread, row, payment_keys,
                   payment_by_country, layers_data, layer_keys, fn, arg, page_vars>>

Raises(exception) ==
    /\ pc' = "raise"
    /\ ret' = exception
    /\ UNCHANGED <<filter_realtime_implemented, fieldnames, nread, row, payment_keys,
                   payment_by_country, layers_data, layer_keys, fn, arg, page_vars>>

CallNormalize ==
    /\ pc = "call" /\ fn = "normalize_country_name"
    /\ IF normalize_country_name_raises(arg)
       THEN Raises("AttributeError")
       ELSE Returns(normalize_country_name(arg))

CallColorPaymentType ==
    /\ pc = "call" /\ fn = "get_color_for_payment_type"
    /\ Returns(get_color_for_payment_type(arg))

CallColorOperator ==
    /\ pc = "call" /\ fn = "get_color_for_operator"
    /\ IF get_color_for_operator_raises(arg)
       THEN Raises("AttributeError")
       ELSE Returns(get_color_for_operator(arg))

CallColorStatus ==
    /\ pc = "call" /\ fn = "get_color_for_status"
    /\ Returns(get_color_for_status(arg))

CallColorYesNo ==
    /\ pc = "call" /\ fn = "get_color_for_yes_no"
    /\ Returns(get_color_for_yes_no(arg))

CallColorSettlement ==
    /\ pc = "call" /\ fn = "get_color_for_settlement"
    /\ Returns(get_color_for_settlement(arg))

CallColorNationalRegional ==
    /\ pc = "call" /\ fn = "get_color_for_national_regional"
    /\ Returns(get_color_for_national_regional(arg))

CallPopup ==
    /\ pc = "call" /\ fn = "build_popup_html"
    /\ Returns(build_popup_html(arg.country, arg.systems))

CallMarkers ==
    /\ pc = "call" /\ fn = "generate_layer_markers"
    /\ LET result == generate_layer_markers(arg.keys, arg.data, arg.layer_type)
       IN  IF result.exc = "none" THEN Returns(result.val) ELSE Raises(result.exc)

NextCalls ==
    \/ CallNormalize
    \/ CallColorPaymentType
    \/ CallColorOperator
    \/ CallColorStatus
    \/ CallColorYesNo
    \/ CallColorSettlement
    \/ CallColorNationalRegional
    \/ CallPopup
    \/ CallMarkers

SpecCalls == InitCalls /\ [][NextCalls]_vars

(***************************************************************************)
(* Properties.                                                             *)
(***************************************************************************)
Last(seq) == seq[Len(seq)]

\* s without its leading and trailing whitespace, stated by what it is: the
\* piece t of s with only whitespace around it that has none at its ends
TrimOf(s) ==
    CHOOSE t \in {SubSeq(s, i, j) : i \in 1..(Len(s) + 1), j \in 0..Len(s)} :
        /\ \E l, r \in 0..Len(s) : s = Spaces(l) \o t \o Spaces(r)
        /\ t # << >> => (Head(t) # WS /\ Last(t) # WS)

\* the index of the first record with active == "Yes", 0 when there is none
C1_FirstActive(systems) ==
    IF \E i \in 1..Len(systems) : systems[i].active = S("Yes")
    THEN CHOOSE i \in 1..Len(systems) :
            /\ systems[i].active = S("Yes")
            /\ \A j \in 1..(i - 1) : systems[j].active # S("Yes")
    ELSE 0

\* the index of the first record with status == "Implemented", 0 when there
\* is none
C1_FirstImplemented(systems) ==
    IF \E i \in 1..Len(systems) : systems[i].status = S("Implemented")
    THEN CHOOSE i \in 1..Len(systems) :
            /\ systems[i].status = S("Implemented")
            /\ \A j \in 1..(i - 1) : systems[j].status # S("Implemented")
    ELSE 0

\* the representative of a non-empty group, by the priority of the claim
C1_Representative(systems) ==
    IF C1_FirstActive(systems) # 0 THEN systems[C1_FirstActive(systems)]
    ELSE IF C1_FirstImplemented(systems) # 0
    THEN systems[C1_FirstImplemented(systems)]
    ELSE systems[1]

\* the field of a record that a layer shows
C1_LayerField ==
    [payment_type |-> "payment_type", operator |-> "operator",
     status |-> "status", bank_participation |-> "bank_participation",
     nonbank_participation |-> "nonbank_participation",
     settlement_type |-> "settlement_type",
     national_regional |-> "national_regional", qr_code |-> "qr_code"]

\* the value a layer displays for record p
C1_Shown(layer_type, p) ==
    IF layer_type = "settlement_type" THEN settlement_first(p.settlement_type)
    ELSE p[C1_LayerField[layer_type]]

\* C1: for every layer type, the marker of every country shows the field of
\* the first record with active == "Yes", else of the first record with
\* status == "Implemented", else of the first record of the group: one record
\* per country, the same for all 8 layer types.
C1_RepresentativePriority ==
    (pc = "return" /\ fn = "generate_layer_markers"
        /\ arg.layer_type \in DOMAIN C1_LayerField)
    => /\ Len(ret) = Len(arg.keys)
       /\ \A i \in 1..Len(ret) :
            LET systems == arg.data[arg.keys[i]]
            IN  /\ ret[i].country = arg.keys[i]
                /\ ret[i].value = C1_Shown(arg.layer_type, C1_Representative(systems))

\* a group [Alpha (not active, planned), Delta (active, implemented)]: the
\* operator layer shows the second record's operator
C1_Witness ==
    /\ pc = "return" /\ fn = "generate_layer_markers"
    /\ arg.layer_type = "operator"
    /\ arg.keys = <<Kenya>>
    /\ Len(arg.data[Kenya]) = 2
    /\ arg.data[Kenya][1].active = S("No")
    /\ arg.data[Kenya][1].status = S("Planned/Piloted")
    /\ arg.data[Kenya][2].active = S("Yes")
    /\ arg.data[Kenya][2].status = S("Implemented")
    /\ ret[1].value = arg.data[Kenya][2].operator
    /\ ret[1].value # arg.data[Kenya][1].operator

\* every stored record passes the filter
C2_AllStoredPass ==
    filter_realtime_implemented
    => \A country \in DOMAIN payment_by_country :
         \A i \in 1..Len(payment_by_country[country]) :
            /\ payment_by_country[country][i].active = S("Yes")
            /\ payment_by_country[country][i].status = S("Implemented")

\* the row's own field is not the exact value (an absent column is not)
C2_RowFails(r) ==
    \/ COL_ACTIVE \notin DOMAIN r
    \/ COL_STATUS \notin DOMAIN r
    \/ r[COL_ACTIVE] # S("Yes")
    \/ r[COL_STATUS] # S("Implemented")

\* reading a row that fails a condition leaves the groups as they were
C2_FailingRowNotStored ==
    (filter_realtime_implemented /\ pc = "load" /\ nread' = nread + 1
        /\ C2_RowFails(row'))
    => UNCHANGED <<payment_by_country, payment_keys>>

\* C2: with filtering enabled, after any sequence of rows every stored record
\* has active == "Yes" and status == "Implemented", and a row that fails
\* either condition is not stored.
C2_FilterInvariant == []C2_AllStoredPass /\ [][C2_FailingRowNotStored]_vars

\* one row was stored, then a row with active == "No" was read and skipped
C2_Witness ==
    /\ filter_realtime_implemented
    /\ pc = "load" /\ nread = 2
    /\ COL_ACTIVE \in DOMAIN row /\ row[COL_ACTIVE] = S("No")
    /\ payment_keys = <<Kenya>>
    /\ Len(payment_by_country[Kenya]) = 1

\* C3: each of the 8 layers has exactly one marker per country key of the
\* loaded CountryGroup: its list is as long as the number of countries and
\* all 8 lists name the same countries.
C3_OneMarkerPerCountry ==
    /\ pc = "done" => DOMAIN layers_data = {layer_types[i] : i \in 1..Len(layer_types)}
    /\ \A lt \in DOMAIN layers_data :
        /\ Len(layers_data[lt]) = Cardinality(DOMAIN payment_by_country)
        /\ \A country \in DOMAIN payment_by_country :
             Cardinality({i \in 1..Len(layers_data[lt]) :
                            layers_data[lt][i].country = country}) = 1
        /\ \A i \in 1..Len(layers_data[lt]) :
             layers_data[lt][i].country \in DOMAIN payment_by_country

\* two countries loaded, the document written
C3_Witness ==
    /\ pc = "done"
    /\ Cardinality(DOMAIN payment_by_country) = 2
    /\ \A i \in 1..Len(layer_types) : Len(layers_data[layer_types[i]]) = 2

\* the row's country, trimmed and alias-mapped, is empty or a regional label
C4_RegionalRow(r) ==
    LET raw == IF COL_COUNTRY \in DOMAIN r THEN r[COL_COUNTRY] ELSE EmptyStr
        trimmed == TrimOf(raw)
        country == IF trimmed \in DOMAIN COUNTRY_MAPPINGS
                   THEN COUNTRY_MAPPINGS[trimmed] ELSE trimmed
    IN  country \in {EmptyStr, S("Africa"), S("Asia"), S("Europe")}

C4_NoRegionalKey ==
    /\ \A country \in DOMAIN payment_by_country :
         country \notin {EmptyStr, S("Africa"), S("Asia"), S("Europe")}
    /\ \A lt \in DOMAIN layers_data :
         \A i \in 1..Len(layers_data[lt]) :
            layers_data[lt][i].country
                \notin {EmptyStr, S("Africa"), S("Asia"), S("Europe")}

C4_RegionalRowSkipped ==
    (pc = "load" /\ nread' = nread + 1 /\ C4_RegionalRow(row'))
    => UNCHANGED <<payment_by_country, payment_keys>>

\* C4: a row whose normalized country is empty or "Africa", "Asia" or
\* "Europe" is skipped, with or without filtering, so no such label is a key
\* of the CountryGroup or the country of a marker of any layer.
C4_RegionalExcluded == []C4_NoRegionalKey /\ [][C4_RegionalRowSkipped]_vars

\* without filtering: a row of Kenya was stored, then a row of " Asia" skipped
C4_Witness ==
    /\ ~filter_realtime_implemented
    /\ pc = "load" /\ nread = 2
    /\ COL_COUNTRY \in DOMAIN row /\ row[COL_COUNTRY] = <<WS, "Asia">>
    /\ payment_keys = <<Kenya>>

\* C5: normalize_country_name returns the alias table's target when the
\* trimmed name is a key of the table, and the trimmed name otherwise.
C5_NormalizeContract ==
    (pc = "return" /\ fn = "normalize_country_name")
    => /\ TrimOf(arg) \in DOMAIN COUNTRY_MAPPINGS
            => ret = COUNTRY_MAPPINGS[TrimOf(arg)]
       /\ (TrimOf(arg) \notin DOMAIN COUNTRY_MAPPINGS /\ arg # EmptyStr)
            => ret = TrimOf(arg)

\* the padded alias " USA " gave the table's target
C5_Witness ==
    /\ pc = "return" /\ fn = "normalize_country_name"
    /\ arg = <<WS, "USA", WS>>
    /\ ret = S("United States of America")

\* the lookup table of each colorizer
ColorTable ==
    [get_color_for_payment_type |-> payment_type_colors,
     get_color_for_operator |-> operator_colors,
     get_color_for_status |-> status_colors,
     get_color_for_yes_no |-> yes_no_colors,
     get_color_for_settlement |-> settlement_colors,
     get_color_for_national_regional |-> national_regional_colors]

\* the colors of table
ColorsOf(table) == {table[k] : k \in DOMAIN table}

\* the shared fallback differs from every color of every table
FallbackDistinct ==
    \A f \in Colorizers : "#757575" \notin ColorsOf(ColorTable[f])

\* the color table gives for key, the fallback when key is no key of it
Lookup(table, key) == IF key \in DOMAIN table THEN table[key] ELSE "#757575"

\* the first comma-separated component of s: the longest prefix without a comma
FirstComponent(s) ==
    CHOOSE t \in {SubSeq(s, 1, j) : j \in 0..Len(s)} :
        /\ \A i \in 1..Len(t) : t[i] # COMMA
        /\ Len(t) < Len(s) => s[Len(t) + 1] = COMMA

\* C6 as stated: every colorizer returns its table's color for a key of its
\* table and the fallback for any other value, and the fallback is in no table.
C6_Original ==
    /\ FallbackDistinct
    /\ (pc = "return" /\ fn \in Colorizers)
        => /\ arg \in DOMAIN ColorTable[fn] => ret = ColorTable[fn][arg]
           /\ arg \notin DOMAIN ColorTable[fn] => ret = "#757575"

\* the key a colorizer looks up for a value
C6_LookupKey(f, value) ==
    IF f = "get_color_for_operator" THEN TrimOf(value)
    ELSE IF f = "get_color_for_settlement"
    THEN (IF value = EmptyStr THEN S("NA") ELSE TrimOf(FirstComponent(value)))
    ELSE value

\* C6 (amended): every colorizer returns its table's color for a key of its
\* table.  For another str the payment-type, status, yes/no and
\* national/regional colorizers return the fallback; the operator colorizer
\* looks up the trimmed value and the settlement colorizer the trimmed first
\* comma-separated component ("NA" for the empty string), and each returns
\* the fallback only when that is no key.  The fallback is in no table.
C6_ColorizerContract ==
    /\ FallbackDistinct
    /\ (pc = "return" /\ fn \in Colorizers /\ arg # None)
        => /\ arg \in DOMAIN ColorTable[fn] => ret = ColorTable[fn][arg]
           /\ ret = Lookup(ColorTable[fn], C6_LookupKey(fn, arg))

\* the operator colorizer gave a table color for a value that is no key
C6_Witness ==
    /\ pc = "return" /\ fn = "get_color_for_operator"
    /\ arg = <<WS, "Central bank">>
    /\ arg \notin DOMAIN operator_colors
    /\ ret = "#1565C0"

\* a key of f's table with whitespace around it
PaddedKey(f, value) ==
    /\ value # TrimOf(value)
    /\ TrimOf(value) \in DOMAIN ColorTable[f]

\* C7 as stated: only the operator colorizer trims; a padded key gives the
\* fallback from each of the other five.
C7_Original ==
    (pc = "return" /\ fn \in Colorizers /\ PaddedKey(fn, arg))
    => IF fn = "get_color_for_operator"
       THEN ret = ColorTable[fn][TrimOf(arg)]
       ELSE ret = "#757575"

\* C7 (amended): the operator and the settlement-type colorizers trim before
\* the lookup, so a padded key gives the key's color; the payment-type,
\* status, yes/no and national/regional colorizers do not, so a padded key
\* gives the fallback.
C7_TrimAsymmetry ==
    (pc = "return" /\ fn \in Colorizers /\ PaddedKey(fn, arg))
    => IF fn \in {"get_color_for_operator", "get_color_for_settlement"}
       THEN ret = ColorTable[fn][TrimOf(arg)]
       ELSE ret = "#757575"

\* the settlement colorizer gave the color of RTGS for " RTGS"
C7_Witness ==
    /\ pc = "return" /\ fn = "get_color_for_settlement"
    /\ arg = <<WS, "RTGS">>
    /\ ret = "#1565C0"

\* the positions of token in html
Positions(html, token) == {i \in 1..Len(html) : html[i] = token}

\* the k-th smallest element of a set of numbers
RECURSIVE Kth(_, _)
Kth(set, k) ==
    LET least == CHOOSE x \in set : \A y \in set : x <= y
    IN  IF k = 1 THEN least ELSE Kth(set \ {least}, k - 1)

C8_Digits == <<"1", "2", "3", "4", "5", "6", "7", "8", "9">>

\* C8: for n records the popup has min(n, 5) entries, numbered from 1 and
\* naming the group's first records in order; it ends with
\* "...and (n-5) more systems" exactly when n > 5; the count shown is n.
C8_PopupTruncation ==
    (pc = "return" /\ fn = "build_popup_html")
    => LET n == Len(arg.systems)
           shown == IF n < 5 THEN n ELSE 5
           entries == Positions(ret, ". ")
           more == Positions(ret, "<i>...and ")
           count == Positions(ret, "<b>Payment Systems: ")
       IN  /\ Cardinality(entries) = shown
           /\ \A k \in 1..shown :
                /\ ret[Kth(entries, k) - 1] = C8_Digits[k]
                /\ <<ret[Kth(entries, k) + 1]>> = arg.systems[k].name
           /\ Cardinality(more) = (IF n > 5 THEN 1 ELSE 0)
           /\ \A i \in more :
                /\ ret[i + 1] = ToString(n - 5)
                /\ ret[i + 2] = " more systems</i><br/>"
                /\ i + 2 = Len(ret)
           /\ Cardinality(count) = 1
           /\ \A i \in count : ret[i + 1] = ToString(n)

\* 7 records: 5 entries and "...and 2 more systems"
C8_Witness ==
    /\ pc = "return" /\ fn = "build_popup_html"
    /\ Len(arg.systems) = 7
    /\ Cardinality(Positions(ret, ". ")) = 5
    /\ \E i \in Positions(ret, "<i>...and ") :
         ret[i + 1] = "2" /\ ret[i + 2] = " more systems</i><br/>"

\* C9 as stated: generate_layer_markers raises for no CountryGroup, a group
\* with no record included.
C9_NeverRaises == fn = "generate_layer_markers" => pc # "raise"

\* the default that the claim gives for an absent field
C10_ClaimedDefault(field) ==
    IF field = "active" THEN S("No")
    ELSE IF field = "url" THEN EmptyStr
    ELSE S("NA")

\* the row just read was stored
C10_RowStored == pc = "load" /\ nread > 0 /\ row_retained(row, filter_realtime_implemented)

\* the record stored for the row just read
C10_Record == Last(payment_by_country[row_country(row)])

\* the row has no value for the field's column: the header lacks the column,
\* or the line ends before it
C10_Absent(r, field) ==
    \/ ColumnOf[field] \notin DOMAIN r
    \/ r[ColumnOf[field]] = None

\* C10 as stated: for every retained row, a field absent from the row is
\* stored as "NA", the active flag as "No" and the URL as "".
C10_Original ==
    C10_RowStored
    => \A field \in DOMAIN ColumnOf :
         C10_Absent(row, field)
            => C10_Record[field] = C10_ClaimedDefault(field)

(***************************************************************************)
(* get_legend_items and get_country_coordinates.                           *)
(***************************************************************************)
\* lines 213-260: layer type -> <<title, <<color, label>> ...>>
legends ==
    [payment_type |->
        <<"Payment System Type",
          << <<"#2E7D32", "Interbank payment system">>,
             <<"#1976D2", "Cross-domain payment system">>,
             <<"#F57C00", "Mobile money">>,
             <<"#7B1FA2", "CBDC">>,
             <<"#C2185B", "Mobile wallet">>,
             <<"#9E9E9E", "NA/Other">> >> >>,
     operator |->
        <<"Operator",
          << <<"#1565C0", "Central bank">>,
             <<"#00897B", "Bank association">>,
             <<"#6A1B9A", "Commercial bank/Private PSP">>,
             <<"#AD1457", "Private PSP">>,
             <<"#9E9E9E", "NA/Other">> >> >>,
     bank_participation |->
        <<"Bank Participation",
          << <<"#2E7D32", "Yes">>, <<"#D32F2F", "No">>, <<"#9E9E9E", "NA">> >> >>,
     nonbank_participation |->
        <<"Non-Bank Participation",
          << <<"#2E7D32", "Yes">>, <<"#D32F2F", "No">>, <<"#9E9E9E", "NA">> >> >>,
     status |->
        <<"Implementation Status",
          << <<"#2E7D32", "Implemented">>,
             <<"#F9A825", "Planned/Piloted">>,
             <<"#9E9E9E", "NA">> >> >>,
     settlement_type |->
        <<"Settlement System Type",
          << <<"#1565C0", "RTGS">>,
             <<"#00897B", "DNS">>,
             <<"#6A1B9A", "ACH">>,
             <<"#F57C00", "MN">>,
             <<"#9E9E9E", "NA/Other">> >> >>,
     national_regional |->
        <<"Scope",
          << <<"#1976D2", "National">>, <<"#388E3C", "Regional">> >> >>,
     qr_code |->
        <<"QR Code Based",
          << <<"#2E7D32", "Yes">>, <<"#D32F2F", "No">>, <<"#9E9E9E", "NA">> >> >>]

\* line 261
get_legend_items(layer_type) ==
    IF layer_type \in DOMAIN legends THEN legends[layer_type]
    ELSE <<"Unknown", << >> >>

\* lines 540-737; a coordinate is kept as the literal of the source
country_coords ==
    (S("Afghanistan") :> <<"33.0", "65.0">>) @@
    (S("Albania") :> <<"41.0", "20.0">>) @@
    (S("Algeria") :> <<"28.0", "3.0">>) @@
    (S("Andorra") :> <<"42.5", "1.5">>) @@
    (S("Angola") :> <<"-12.5", "18.5">>) @@
    (S("Antigua and Barbuda") :> <<"17.05", "-61.8">>) @@
    (S("Argentina") :> <<"-34.0", "-64.0">>) @@
    (S("Armenia") :> <<"40.0", "45.0">>) @@
    (S("Australia") :> <<"-25.0", "135.0">>) @@
    (S("Austria") :> <<"47.5", "14.5">>) @@
    (S("Azerbaijan") :> <<"40.5", "47.5">>) @@
    (S("Bahamas") :> <<"24.25", "-76.0">>) @@
    (S("Bahrain") :> <<"26.0", "50.5">>) @@
    (S("Bangladesh") :> <<"24.0", "90.0">>) @@
    (S("Barbados") :> <<"13.2", "-59.5">>) @@
    (S("Belarus") :> <<"53.0", "28.0">>) @@
    (S("Belgium") :> <<"50.8", "4.0">>) @@
    (S("Belize") :> <<"17.25", "-88.75">>) @@
    (S("Benin") :> <<"9.5", "2.25">>) @@
    (S("Bhutan") :> <<"27.5", "90.5">>) @@
    (S("Bolivia") :> <<"-17.0", "-65.0">>) @@
    (S("Bosnia and Herzegovina") :> <<"44.0", "18.0">>) @@
    (S("Botswana") :> <<"-22.0", "24.0">>) @@
    (S("Brazil") :> <<"-10.0", "-55.0">>) @@
    (S("Brunei") :> <<"4.5", "114.67">>) @@
    (S("Bulgaria") :> <<"43.0", "25.0">>) @@
    (S("Burkina Faso") :> <<"13.0", "-2.0">>) @@
    (S("Burundi") :> <<"-3.5", "30.0">>) @@
    (S("Cabo Verde") :> <<"16.0", "-24.0">>) @@
    (S("Cambodia") :> <<"13.0", "105.0">>) @@
    (S("Cameroon") :> <<"6.0", "12.0">>) @@
    (S("Canada") :> <<"60.0", "-95.0">>) @@
    (S("Central African Republic") :> <<"7.0", "21.0">>) @@
    (S("Chad") :> <<"15.0", "19.0">>) @@
    (S("Chile") :> <<"-30.0", "-71.0">>) @@
    (S("China") :> <<"35.0", "105.0">>) @@
    (S("Colombia") :> <<"4.0", "-72.0">>) @@
    (S("Comoros") :> <<"-12.17", "44.25">>) @@
    (S("Congo") :> <<"-1.0", "15.0">>) @@
    (S("Costa Rica") :> <<"10.0", "-84.0">>) @@
    (S("Croatia") :> <<"45.1", "15.2">>) @@
    (S("Cuba") :> <<"21.5", "-80.0">>) @@
    (S("Cyprus") :> <<"35.0", "33.0">>) @@
    (S("Czechia") :> <<"49.75", "15.5">>) @@
    (S("Denmark") :> <<"56.0", "10.0">>) @@
    (S("Djibouti") :> <<"11.5", "43.0">>) @@
    (S("Dominica") :> <<"15.42", "-61.33">>) @@
    (S("Dominican Republic") :> <<"19.0", "-70.5">>) @@
    (S("Ecuador") :> <<"-2.0", "-77.5">>) @@
    (S("Egypt") :> <<"27.0", "30.0">>) @@
    (S("El Salvador") :> <<"13.8", "-88.9">>) @@
    (S("Equatorial Guinea") :> <<"2.0", "10.0">>) @@
    (S("Estonia") :> <<"59.0", "26.0">>) @@
    (S("Eswatini") :> <<"-26.5", "31.5">>) @@
    (S("Ethiopia") :> <<"8.0", "38.0">>) @@
    (S("Fiji") :> <<"-18.0", "175.0">>) @@
    (S("Finland") :> <<"64.0", "26.0">>) @@
    (S("France") :> <<"46.0", "2.0">>) @@
    (S("Gabon") :> <<"-1.0", "11.75">>) @@
    (S("Gambia") :> <<"13.5", "-15.5">>) @@
    (S("Georgia") :> <<"42.0", "43.5">>) @@
    (S("Germany") :> <<"51.0", "9.0">>) @@
    (S("Ghana") :> <<"8.0", "-2.0">>) @@
    (S("Greece") :> <<"39.0", "22.0">>) @@
    (S("Grenada") :> <<"12.12", "-61.67">>) @@
    (S("Guatemala") :> <<"15.5", "-90.25">>) @@
    (S("Guinea") :> <<"11.0", "-10.0">>) @@
    (S("Guinea-Bissau") :> <<"12.0", "-15.0">>) @@
    (S("Guyana") :> <<"5.0", "-59.0">>) @@
    (S("Haiti") :> <<"19.0", "-72.42">>) @@
    (S("Honduras") :> <<"15.0", "-86.5">>) @@
    (S("Hong Kong") :> <<"22.3", "114.2">>) @@
    (S("Hungary") :> <<"47.0", "20.0">>) @@
    (S("Iceland") :> <<"65.0", "-18.0">>) @@
    (S("India") :> <<"20.0", "77.0">>) @@
    (S("Indonesia") :> <<"-5.0", "120.0">>) @@
    (S("Iran") :> <<"32.0", "53.0">>) @@
    (S("Iraq") :> <<"33.0", "44.0">>) @@
    (S("Ireland") :> <<"53.0", "-8.0">>) @@
    (S("Israel") :> <<"31.5", "34.75">>) @@
    (S("Italy") :> <<"42.8", "12.8">>) @@
    (S("Jamaica") :> <<"18.25", "-77.5">>) @@
    (S("Japan") :> <<"36.0", "138.0">>) @@
    (S("Jordan") :> <<"31.0", "36.0">>) @@
    (S("Kazakhstan") :> <<"48.0", "68.0">>) @@
    (S("Kenya") :> <<"1.0", "38.0">>) @@
    (S("Kiribati") :> <<"1.42", "173.0">>) @@
    (S("Kosovo") :> <<"42.67", "21.17">>) @@
    (S("Kuwait") :> <<"29.5", "45.75">>) @@
    (S("Kyrgyzstan") :> <<"41.0", "75.0">>) @@
    (S("Laos") :> <<"18.0", "105.0">>) @@
    (S("Latvia") :> <<"57.0", "25.0">>) @@
    (S("Lebanon") :> <<"33.8", "35.8">>) @@
    (S("Lesotho") :> <<"-29.5", "28.5">>) @@
    (S("Liberia") :> <<"6.5", "-9.5">>) @@
    (S("Libya") :> <<"25.0", "17.0">>) @@
    (S("Liechtenstein") :> <<"47.17", "9.53">>) @@
    (S("Lithuania") :> <<"56.0", "24.0">>) @@
    (S("Luxembourg") :> <<"49.75", "6.17">>) @@
    (S("Macao") :> <<"22.17", "113.55">>) @@
    (S("Madagascar") :> <<"-20.0", "47.0">>) @@
    (S("Malawi") :> <<"-13.5", "34.0">>) @@
    (S("Malaysia") :> <<"2.5", "112.5">>) @@
    (S("Maldives") :> <<"3.25", "73.0">>) @@
    (S("Mali") :> <<"17.0", "-4.0">>) @@
    (S("Malta") :> <<"35.9", "14.4">>) @@
    (S("Marshall Islands") :> <<"9.0", "168.0">>) @@
    (S("Mauritania") :> <<"20.0", "-12.0">>) @@
    (S("Mauritius") :> <<"-20.3", "57.6">>) @@
    (S("Mexico") :> <<"23.0", "-102.0">>) @@
    (S("Micronesia") :> <<"6.92", "158.25">>) @@
    (S("Moldova") :> <<"47.0", "29.0">>) @@
    (S("Monaco") :> <<"43.73", "7.42">>) @@
    (S("Mongolia") :> <<"46.0", "105.0">>) @@
    (S("Montenegro") :> <<"42.5", "19.3">>) @@
    (S("Morocco") :> <<"32.0", "-5.0">>) @@
    (S("Mozambique") :> <<"-18.25", "35.0">>) @@
    (S("Myanmar") :> <<"22.0", "98.0">>) @@
    (S("Namibia") :> <<"-22.0", "17.0">>) @@
    (S("Nauru") :> <<"-0.53", "166.92">>) @@
    (S("Nepal") :> <<"28.0", "84.0">>) @@
    (S("Netherlands") :> <<"52.5", "5.75">>) @@
    (S("New Zealand") :> <<"-41.0", "174.0">>) @@
    (S("Nicaragua") :> <<"13.0", "-85.0">>) @@
    (S("Niger") :> <<"16.0", "8.0">>) @@
    (S("Nigeria") :> <<"10.0", "8.0">>) @@
    (S("North Macedonia") :> <<"41.83", "22.0">>) @@
    (S("Norway") :> <<"62.0", "10.0">>) @@
    (S("Oman") :> <<"21.0", "57.0">>) @@
    (S("Pakistan") :> <<"30.0", "70.0">>) @@
    (S("Palau") :> <<"7.5", "134.5">>) @@
    (S("Palestine") :> <<"32.0", "35.25">>) @@
    (S("Panama") :> <<"9.0", "-80.0">>) @@
    (S("Papua New Guinea") :> <<"-6.0", "147.0">>) @@
    (S("Paraguay") :> <<"-23.0", "-58.0">>) @@
    (S("Peru") :> <<"-10.0", "-76.0">>) @@
    (S("Philippines") :> <<"13.0", "122.0">>) @@
    (S("Poland") :> <<"52.0", "20.0">>) @@
    (S("Portugal") :> <<"39.5", "-8.0">>) @@
    (S("Qatar") :> <<"25.5", "51.25">>) @@
    (S("Republic of Korea") :> <<"37.0", "127.5">>) @@
    (S("Romania") :> <<"46.0", "25.0">>) @@
    (S("Russian Federation") :> <<"60.0", "100.0">>) @@
    (S("Rwanda") :> <<"-2.0", "30.0">>) @@
    (S("Saint Kitts and Nevis") :> <<"17.33", "-62.75">>) @@
    (S("Saint Lucia") :> <<"14.0", "-61.0">>) @@
    (S("Saint Vincent and the Grenadines") :> <<"13.25", "-61.2">>) @@
    (S("Samoa") :> <<"-13.58", "-172.33">>) @@
    (S("San Marino") :> <<"43.77", "12.42">>) @@
    (S("Sao Tome and Principe") :> <<"1.0", "7.0">>) @@
    (S("Saudi Arabia") :> <<"25.0", "45.0">>) @@
    (S("Senegal") :> <<"14.0", "-14.0">>) @@
    (S("Serbia") :> <<"44.0", "21.0">>) @@
    (S("Seychelles") :> <<"-4.58", "55.67">>) @@
    (S("Sierra Leone") :> <<"8.5", "-11.5">>) @@
    (S("Singapore") :> <<"1.3", "103.8">>) @@
    (S("Slovakia") :> <<"48.7", "19.5">>) @@
    (S("Slovenia") :> <<"46.1", "14.8">>) @@
    (S("Solomon Islands") :> <<"-8.0", "159.0">>) @@
    (S("Somalia") :> <<"10.0", "49.0">>) @@
    (S("South Africa") :> <<"-29.0", "24.0">>) @@
    (S("South Sudan") :> <<"7.0", "30.0">>) @@
    (S("Spain") :> <<"40.0", "-4.0">>) @@
    (S("Sri Lanka") :> <<"7.0", "81.0">>) @@
    (S("Sudan") :> <<"15.0", "30.0">>) @@
    (S("Suriname") :> <<"4.0", "-56.0">>) @@
    (S("Sweden") :> <<"62.0", "15.0">>) @@
    (S("Switzerland") :> <<"47.0", "8.0">>) @@
    (S("Syria") :> <<"35.0", "38.0">>) @@
    (S("Taiwan") :> <<"23.5", "121.0">>) @@
    (S("Tajikistan") :> <<"39.0", "71.0">>) @@
    (S("Tanzania") :> <<"-6.0", "35.0">>) @@
    (S("Thailand") :> <<"15.0", "100.0">>) @@
    (S("Timor-Leste") :> <<"-8.83", "125.92">>) @@
    (S("Togo") :> <<"8.0", "1.17">>) @@
    (S("Tonga") :> <<"-20.0", "-175.0">>) @@
    (S("Trinidad and Tobago") :> <<"11.0", "-61.0">>) @@
    (S("Tunisia") :> <<"34.0", "9.0">>) @@
    (S("Turkey") :> <<"39.0", "35.0">>) @@
    (S("Turkmenistan") :> <<"40.0", "60.0">>) @@
    (S("Tuvalu") :> <<"-8.0", "178.0">>) @@
    (S("Uganda") :> <<"1.0", "32.0">>) @@
    (S("Ukraine") :> <<"49.0", "32.0">>) @@
    (S("United Arab Emirates") :> <<"24.0", "54.0">>) @@
    (S("United Kingdom") :> <<"54.0", "-2.0">>) @@
    (S("United States of America") :> <<"38.0", "-97.0">>) @@
    (S("Uruguay") :> <<"-33.0", "-56.0">>) @@
    (S("Uzbekistan") :> <<"41.0", "64.0">>) @@
    (S("Vanuatu") :> <<"-16.0", "167.0">>) @@
    (S("Venezuela") :> <<"8.0", "-66.0">>) @@
    (S("Vietnam") :> <<"16.0", "106.0">>) @@
    (S("Yemen") :> <<"15.0", "48.0">>) @@
    (S("Zambia") :> <<"-15.0", "30.0">>) @@
    (S("Zimbabwe") :> <<"-20.0", "30.0">>)

\* line 283
get_country_coordinates == country_coords

(***************************************************************************)
(* The client script of the generated document (lines 393-527).  The data  *)
(* that json.dumps embeds reads back in the browser as the same lists and  *)
(* objects: layersData is layers_data, layerLegends[lt] is                 *)
(* get_legend_items(lt) and countryCoords is get_country_coordinates.      *)
(***************************************************************************)
\* the property names that every object inherits from Object.prototype
ObjectPrototypeKeys ==
    {S("constructor"), S("hasOwnProperty"), S("isPrototypeOf"),
     S("propertyIsEnumerable"), S("toLocaleString"), S("toString"),
     S("valueOf"), S("__proto__"), S("__defineGetter__"),
     S("__defineSetter__"), S("__lookupGetter__"), S("__lookupSetter__")}

\* line 423, countryCoords[marker.country]: the object's own property, else
\* the property that it inherits, else undefined
js_get(object, key) ==
    IF key \in DOMAIN object THEN [kind |-> "own", value |-> object[key]]
    ELSE IF key \in ObjectPrototypeKeys THEN [kind |-> "inherited", value |-> << >>]
    ELSE [kind |-> "undefined", value |-> << >>]

\* line 424, if (coords): undefined alone is falsy
js_truthy(v) == v.kind # "undefined"

\* lines 425-432
circle_of(marker, coords) ==
    [latlng |-> coords,
     radius |-> 6 + (IF marker.system_count > 1 THEN 2 ELSE 0),
     fillColor |-> marker.color,
     popup |-> marker.popup]

\* lines 421-436, the forEach of updateMap from the i-th marker on.  An
\* inherited property is no array: coords[0] and coords[1] are undefined and
\* Leaflet 1.9.4 (line 392) throws "Invalid LatLng object" from L.circleMarker.
RECURSIVE draw_markers(_, _, _)
draw_markers(markers, i, circles) ==
    IF i > Len(markers) THEN [exc |-> "none", val |-> circles]
    ELSE LET coords == js_get(get_country_coordinates, markers[i].country)
         IN  IF ~js_truthy(coords) THEN draw_markers(markers, i + 1, circles)
             ELSE IF coords.kind = "inherited"
             THEN [exc |-> "Error: Invalid LatLng object", val |-> circles]
             ELSE draw_markers(markers, i + 1,
                               Append(circles, circle_of(markers[i], coords.value)))

\* lines 478-482: the legend's innerHTML, items from the i-th on
RECURSIVE legend_items_html(_, _)
legend_items_html(items, i) ==
    IF i > Len(items) THEN << >>
    ELSE <<"<div class=\"legend-item\">",
           "<span class=\"legend-color\" style=\"background:", items[i][1],
           "\"></span>", "<span>", items[i][2], "</span></div>">>
         \o legend_items_html(items, i + 1)

\* lines 470-483, updateLegend (legendDiv exists once legend.addTo has run)
legend_html(layer) ==
    <<"<h4>", get_legend_items(layer)[1], "</h4>">>
    \o legend_items_html(get_legend_items(layer)[2], 1)

\* the layer buttons of lines 448-455 and 489-492
layerButtons == layer_types

\* a document for each list of at most MaxCountries countries
Atlantis == S("Atlantis")
Constructor == S("constructor")

PageGroups ==
    (Kenya :> <<Alpha>>) @@ (India :> <<Beta, Delta>>)
    @@ (Atlantis :> <<Gamma>>) @@ (Constructor :> <<Epsilon, Alpha>>)

PageKeyOrders ==
    {ks \in SeqsUpTo(DOMAIN PageGroups, MaxCountries) :
        \A i, j \in 1..Len(ks) : i # j => ks[i] # ks[j]}

\* lines 278-280 for payment_data = PageGroups restricted to keys
page_layers(keys) ==
    [lt \in {layer_types[i] : i \in 1..Len(layer_types)} |->
        generate_layer_markers(keys, PageGroups, lt).val]

(***************************************************************************)
(* SpecPage: the generated document in a browser.                          *)
(*   pc = "page_load"  the document is opened, its script has not run      *)
(*   pc = "ready"      the script has run; events are handled              *)
(***************************************************************************)
InitPage ==
    /\ pc = "page_load"
    /\ filter_realtime_implemented = FALSE
    /\ fieldnames = << >>
    /\ nread = 0
    /\ row = NoRow
    /\ \E keys \in PageKeyOrders :
        /\ payment_keys = keys
        /\ payment_by_country = [c \in {keys[i] : i \in 1..Len(keys)} |-> PageGroups[c]]
        /\ layers_data = page_layers(keys)
    /\ layer_keys = layer_types
    /\ fn = "browser"
    /\ arg = << >>
    /\ ret = << >>
    /\ NoPage

generator_vars ==
    <<filter_realtime_implemented, fieldnames, nread, row, payment_keys,
      payment_by_country, layers_data, layer_keys, fn, arg, ret>>

\* the script of lines 393-527 runs to its end: currentLayer (line 414), the
\* layer control (443-458), the legend (461-485, updateLegend from onAdd),
\* the timer (488), and the initial updateMap() (line 526)
RunScript ==
    /\ pc = "page_load"
    /\ pc' = "ready"
    /\ currentLayer' = "payment_type"
    /\ active_buttons' = {"payment_type"}
    /\ LET drawn == draw_markers(layers_data["payment_type"], 1, << >>)
       IN  /\ currentMarkers' = drawn.val
           /\ js_error' = drawn.exc
    /\ legendDiv' = legend_html("payment_type")
    /\ handlers_attached' = FALSE
    /\ nclicks' = 0
    /\ UNCHANGED generator_vars

\* the callback of setTimeout (lines 488-511) attaches the click handlers
AttachHandlers ==
    /\ pc = "ready"
    /\ ~handlers_attached
    /\ handlers_attached' = TRUE
    /\ js_error' = "none"
    /\ UNCHANGED <<pc, currentLayer, active_buttons, currentMarkers, legendDiv,
                   nclicks, generator_vars>>

\* a click on a layer button before the handlers are attached
ClickUnhandled(layerType) ==
    /\ pc = "ready"
    /\ ~handlers_attached
    /\ nclicks < MaxClicks
    /\ nclicks' = nclicks + 1
    /\ UNCHANGED <<pc, currentLayer, active_buttons, currentMarkers, legendDiv,
                   handlers_attached, js_error, generator_vars>>

\* the click handler of lines 495-509
Click(layerType) ==
    /\ pc = "ready"
    /\ handlers_attached
    /\ nclicks < MaxClicks
    /\ nclicks' = nclicks + 1
    /\ IF currentLayer # layerType
       THEN LET drawn == draw_markers(layers_data[layerType], 1, << >>)
            IN  /\ active_buttons' = (active_buttons \ {layerButtons[i] : i \in 1..Len(layerButtons)})
                                     \cup {layerType}
                /\ currentLayer' = layerType
                /\ currentMarkers' = drawn.val
                /\ js_error' = drawn.exc
                /\ legendDiv' = IF drawn.exc = "none" THEN legend_html(layerType)
                                ELSE legendDiv
       ELSE /\ js_error' = "none"
            /\ UNCHANGED <<currentLayer, active_buttons, currentMarkers, legendDiv>>
    /\ UNCHANGED <<pc, handlers_attached, generator_vars>>

NextPage ==
    \/ RunScript
    \/ AttachHandlers
    \/ \E layerType \in {layerButtons[i] : i \in 1..Len(layerButtons)} :
         ClickUnhandled(layerType)
    \/ \E layerType \in {layerButtons[i] : i \in 1..Len(layerButtons)} :
         Click(layerType)

SpecPage == InitPage /\ [][NextPage]_vars

(***************************************************************************)
(* Properties of the client script, the legends and the loaded groups.     *)
(***************************************************************************)
\* the circles of the markers whose country is a key of the coordinate
\* table, in the order of the markers
RECURSIVE CirclesOfKnown(_, _)
CirclesOfKnown(markers, i) ==
    IF i > Len(markers) THEN << >>
    ELSE (IF markers[i].country \in DOMAIN country_coords
          THEN <<[latlng |-> country_coords[markers[i].country],
                  radius |-> IF markers[i].system_count > 1 THEN 8 ELSE 6,
                  fillColor |-> markers[i].color,
                  popup |-> markers[i].popup]>>
          ELSE << >>)
         \o CirclesOfKnown(markers, i + 1)

\* C11 as stated: once the script has run, after any clicks (on the selected
\* layer, or before the handlers are attached) exactly one button is active,
\* it is the button of the selected layer, and the markers and the legend
\* shown are those of the selected layer; the first selected layer is
\* payment_type.
C11_LayerSwitching ==
    pc = "ready"
    => /\ active_buttons = {currentLayer}
       /\ currentLayer \in {layerButtons[i] : i \in 1..Len(layerButtons)}
       /\ nclicks = 0 => currentLayer = "payment_type"
       /\ currentMarkers = CirclesOfKnown(layers_data[currentLayer], 1)
       /\ legendDiv = legend_html(currentLayer)

\* C13 as stated: the circles drawn are those of the markers of the current
\* layer whose country is a key of the coordinate table, and a marker of
\* another country is dropped without an error.
C13_RenderIffKnown ==
    pc = "ready"
    => /\ js_error = "none"
       /\ currentMarkers = CirclesOfKnown(layers_data[currentLayer], 1)

\* the colors of a layer's legend
LegendColors(layer_type) ==
    {get_legend_items(layer_type)[2][i][1] :
        i \in 1..Len(get_legend_items(layer_type)[2])}

\* C14 as stated: the color of every marker that generate_layer_markers
\* returns for one of the 8 layer types is the color of an entry of the
\* legend of that layer.
C14_LegendCoversColors ==
    (pc = "return" /\ fn = "generate_layer_markers"
        /\ arg.layer_type \in DOMAIN legends)
    => \A i \in 1..Len(ret) : ret[i].color \in LegendColors(arg.layer_type)

\* C15: after any rows, with or without filtering, every country key of the
\* loaded groups has at least one record and is listed once, so the
\* systems[0] of generate_layer_markers raises IndexError on no group of the
\* loader's output.
C15_GroupsNonEmpty ==
    /\ \A country \in DOMAIN payment_by_country :
         Len(payment_by_country[country]) >= 1
    /\ DOMAIN payment_by_country = {payment_keys[i] : i \in 1..Len(payment_keys)}
    /\ Len(payment_keys) = Cardinality(DOMAIN payment_by_country)
    /\ pc = "error" => ret # "IndexError"

\* a row was skipped and a row stored, and a layer was generated from it
C15_Witness ==
    /\ pc = "markers"
    /\ nread = 2
    /\ Len(payment_keys) = 1
    /\ Len(payment_by_country[payment_keys[1]]) = 1
    /\ Len(layer_keys) >= 1
    /\ Len(layers_data["payment_type"]) = 1

====
